---- MODULE Spec2Model ----
(* rollstats: rolling statistics over a sliding window of samples.          *)
(* Model of rollstats/__init__.py: the MemoryFloat cell (value, history,    *)
(* hooks, connect) and the Container (push, _pop, save, subscribe).         *)
(* Floats are modelled in exact arithmetic as normalised fractions.         *)
EXTENDS Integers, Sequences, FiniteSets, TLC

(***************************************************************************)
(* Bounds of the model.                                                    *)
(***************************************************************************)
\* samples are drawn from -1..MaxSample
MaxSample == 2
\* a push call takes 1..MaxBatch samples
MaxBatch == 2
\* samples handed to push over the life of a Container
MaxPushed == 4

\* subscribe calls on a Container
MaxSubs == 1
\* samples handed to push when subscriptions are being followed
MaxSubPushed == 3
\* subscriptions in a chain, each over the output of the one before
MaxChain == 2
\* save calls on connected MemoryFloats
MaxSaves == 3
\* direct calls of Container.save on one Container
MaxSaved == 1
\* commits of the inputs of a connected link: two rounds of three inputs or
\* three rounds of two, and the start of the next
MaxCommits == 7

Samples == (0 - 1)..MaxSample

\* the samples pushed when subscriptions are being followed
SubSamples == {0, 1, 2}

(***************************************************************************)
(* Numbers.  A number is a record [k, p, q]:                               *)
(*   k = "q"     the fraction p/q, q > 0, in lowest terms                  *)
(*   k = "nan"   float("nan")                                              *)
(*   k = "inf"   float("inf")                                              *)
(*   k = "sqrt"  the irrational square root of p/q, times the sign s of q  *)
(*               (q < 0 for a negative root); p/|q| is not a square        *)
(*   k = "ref"   a MemoryFloat object (p is its index in floats)           *)
(*   k = an exception name: the evaluation raised                          *)
(***************************************************************************)
Abs(x) == IF x < 0 THEN -x ELSE x

Sign(x) == IF x < 0 THEN -1 ELSE IF x = 0 THEN 0 ELSE 1

RECURSIVE GCD(_, _)
GCD(a, b) == IF b = 0 THEN a ELSE GCD(b, a % b)

Q(p, q) ==
    LET g == GCD(Abs(p), Abs(q))
        s == Sign(q)
    IN  [k |-> "q", p |-> s * Sign(p) * (Abs(p) \div g), q |-> Abs(q) \div g]

Num(i) == [k |-> "q", p |-> i, q |-> 1]

nan == [k |-> "nan", p |-> 0, q |-> 0]

inf == [k |-> "inf", p |-> 1, q |-> 0]

Raise(exc) == [k |-> exc, p |-> 0, q |-> 0]

Ref(id) == [k |-> "ref", p |-> id, q |-> 0]

Exceptions == {"ZeroDivisionError", "ValueError", "TypeError", "IndexError"}

IsRaise(a) == a.k \in Exceptions

IsQ(a) == a.k = "q"

IsNaN(a) == a.k = "nan"

\* float + float
Add(a, b) ==
    IF IsRaise(a) THEN a ELSE IF IsRaise(b) THEN b
    ELSE IF IsQ(a) /\ IsQ(b) THEN Q(a.p * b.q + b.p * a.q, a.q * b.q)
    ELSE nan

\* float - float
Sub(a, b) ==
    IF IsRaise(a) THEN a ELSE IF IsRaise(b) THEN b
    ELSE IF IsQ(a) /\ IsQ(b) THEN Q(a.p * b.q - b.p * a.q, a.q * b.q)
    ELSE nan

\* float * float
Mul(a, b) ==
    IF IsRaise(a) THEN a ELSE IF IsRaise(b) THEN b
    ELSE IF IsQ(a) /\ IsQ(b) THEN Q(a.p * b.p, a.q * b.q)
    ELSE nan

\* a == b on floats: nan equals nothing
Eq(a, b) == IsQ(a) /\ IsQ(b) /\ a.p * b.q = b.p * a.q

\* a < b on floats: every comparison with nan is false
Less(a, b) ==
    IF IsQ(a) /\ IsQ(b) THEN a.p * b.q < b.p * a.q
    ELSE IsQ(a) /\ b.k = "inf"

Leq(a, b) == Less(a, b) \/ Eq(a, b) \/ (a.k = "inf" /\ b.k = "inf")

\* the square of a number that may be an irrational root
IsSquare(m) == \E r \in 0..m : r * r = m

ISqrt(m) == CHOOSE r \in 0..m : r * r = m

\* float / float: Python raises on a zero divisor, also for a nan dividend
Div(a, b) ==
    IF IsRaise(a) THEN a ELSE IF IsRaise(b) THEN b
    ELSE IF IsQ(b) /\ b.p = 0 /\ (IsQ(a) \/ IsNaN(a)) THEN Raise("ZeroDivisionError")
    ELSE IF IsQ(a) /\ IsQ(b) THEN Q(a.p * b.q, a.q * b.p)
    ELSE IF IsQ(a) /\ b.k = "sqrt" THEN
        \* a / (s * sqrt(p/|q|)) = sign(a) * s * sqrt(a^2 * |q| / p)
        IF a.p = 0 THEN Num(0)
        ELSE LET r == Q(a.p * a.p * Abs(b.q), a.q * a.q * b.p)
                 s == Sign(a.p) * Sign(b.q)
             IN  IF IsSquare(r.p) /\ IsSquare(r.q)
                 THEN Q(s * ISqrt(r.p), ISqrt(r.q))
                 ELSE [k |-> "sqrt", p |-> r.p, q |-> s * r.q]
    ELSE nan

\* math.sqrt
Sqrt(a) ==
    IF IsRaise(a) THEN a
    ELSE IF IsQ(a) THEN
        IF a.p < 0 THEN Raise("ValueError")
        ELSE IF IsSquare(a.p) /\ IsSquare(a.q) THEN Q(ISqrt(a.p), ISqrt(a.q))
        ELSE [k |-> "sqrt", p |-> a.p, q |-> a.q]
    ELSE nan

(***************************************************************************)
(* MemoryFloat: a value, its history and its hooks.  The floats of a       *)
(* Container live in the sequence floats; a MemoryFloat object is its      *)
(* index.  The six primaries are created in Container.__init__, in the     *)
(* order of the tuple mem_floats.                                          *)
(***************************************************************************)
id_value == 1
id_n == 2
id_S == 3
id_M == 4
id_sum == 5
id_reciprocal_sum == 6

mem_floats == <<id_value, id_n, id_S, id_M, id_sum, id_reciprocal_sum>>

\* MemoryFloat.__init__
MemoryFloat(v) == [value |-> v, history |-> <<>>, hooks |-> <<>>]

\* MemoryFloat.__float__: the float behind a value, which may itself be a
\* MemoryFloat (a func that returns its argument)
RECURSIVE Float(_, _)
Float(fs, v) == IF v.k = "ref" THEN Float(fs, fs[v.p].value) ELSE v

\* the current float of MemoryFloat id of container state c
Cur(c, id) == Float(c.floats, c.floats[id].value)

\* MemoryFloat.assign
assign(c, id, v) == [c EXCEPT !.floats[id].value = v]

(***************************************************************************)
(* The statistics functions.                                               *)
(***************************************************************************)
\* var(S, n)
var(S, n) == IF Less(Num(1), n) THEN Div(S, Sub(n, Num(1))) ELSE nan

\* std(S, n)
std(S, n) == IF Less(Num(1), n) THEN Sqrt(Div(S, Sub(n, Num(1)))) ELSE nan

\* zscore(S, n, value, M)
zscore(S, n, value, M) ==
    IF Less(Num(0), S) /\ Less(Num(0), n) THEN Div(Sub(value, M), std(S, n)) ELSE nan

\* pop_var(S, n)
pop_var(S, n) == IF Less(Num(1), n) THEN Div(S, n) ELSE nan

\* pop_std(S, n)
pop_std(S, n) == IF Less(Num(1), n) THEN Sqrt(Div(S, n)) ELSE nan

\* lambda x, y: x + y of test_transform
add(x, y) == Add(x, y)

\* sum_func(i1, i2, i3) of test_connect
sum_func(i1, i2, i3) == Add(Add(i1, i2), i3)

\* the func of a subscription, applied to its input MemoryFloats
\*   "mean" is lambda x: x, which returns the input object itself
\*   "harmonic_mean" is lambda rec, n: n / rec
\*   "mean_plus_1" is lambda m: m + 1
Apply(c, func, inputs) ==
    LET a(i) == Cur(c, inputs[i])
    IN  CASE func = "var" -> var(a(1), a(2))
          [] func = "std" -> std(a(1), a(2))
          [] func = "pop_var" -> pop_var(a(1), a(2))
          [] func = "pop_std" -> pop_std(a(1), a(2))
          [] func = "zscore" -> zscore(a(1), a(2), a(3), a(4))
          [] func = "mean" -> Ref(inputs[1])
          [] func = "harmonic_mean" -> Div(a(2), a(1))
          [] func = "mean_plus_1" -> Add(a(1), Num(1))
          [] func = "add" -> add(a(1), a(2))
          [] func = "sum_func" -> sum_func(a(1), a(2), a(3))

(***************************************************************************)
(* MemoryFloat.save and the hook that MemoryFloat.connect attaches.        *)
(* A link is [inputs, output, func, pool]; an exception raised by func     *)
(* leaves the state as it is at that point and ends the call (c.err).      *)
(***************************************************************************)
Range(s) == {s[i] : i \in 1..Len(s)}

RECURSIVE save(_, _)
RECURSIVE run_hooks(_, _, _)
RECURSIVE hook(_, _, _)

\* a save whose hooks run for the six primaries only: derived values commit
\* without notifying the values derived from them
save_flat(c, id) ==
    LET c1 == [c EXCEPT !.floats[id].history = Append(@, Cur(c, id))]
    IN  IF id <= Len(mem_floats) THEN run_hooks(c1, id, 1) ELSE c1

\* MemoryFloat.save
save(c, id) ==
    LET c1 == [c EXCEPT !.floats[id].history = Append(@, Cur(c, id))]
    IN  run_hooks(c1, id, 1)

\* for hook in self.hooks: hook(self)
run_hooks(c, id, i) ==
    IF c.err # "none" \/ i > Len(c.floats[id].hooks) THEN c
    ELSE run_hooks(hook(c, c.floats[id].hooks[i], id), id, i + 1)

\* what a hook finds when it is called with input: the lengths of all
\* histories, n.current and len(data), and whether the call makes link l fire
Seen(c, l, input) ==
    [link |-> l, input |-> input,
     fires |-> c.links[l].pool \cup {input} = Range(c.links[l].inputs),
     lens |-> [i \in 1..Len(c.floats) |-> Len(c.floats[i].history)],
     n |-> Cur(c, id_n), datalen |-> Len(c.data)]

\* a hook without the barrier: it fires on every commit of an input
hook_eager(c, l, input) ==
    LET link == c.links[l]
        v == Apply(c, link.func, link.inputs)
        c1 == [c EXCEPT !.trace = Append(@, Seen(c, l, input))]
    IN  IF IsRaise(v) THEN [c1 EXCEPT !.err = v.k]
        ELSE save(assign(c1, link.output, v), link.output)

\* a hook that forgets "pool = set()" after it fired: from then on it fires
\* on every commit of an input
hook_keeps_pool(c, l, input) ==
    LET link == c.links[l]
        pool == link.pool \cup {input}
        c1 == [c EXCEPT !.links[l].pool = pool,
                        !.trace = Append(@, Seen(c, l, input))]
        v == Apply(c1, link.func, link.inputs)
    IN  IF pool = Range(link.inputs)
        THEN IF IsRaise(v) THEN [c1 EXCEPT !.err = v.k]
             ELSE save(assign(c1, link.output, v), link.output)
        ELSE c1

\* the closure hook(input) of link l
hook(c, l, input) ==
    LET link == c.links[l]
        pool == link.pool \cup {input}
        c1 == [c EXCEPT !.links[l].pool = pool,
                        !.trace = Append(@, Seen(c, l, input))]
        v == Apply(c1, link.func, link.inputs)
        c2 == save(assign(c1, link.output, v), link.output)
    IN  IF pool = Range(link.inputs)
        THEN IF IsRaise(v) THEN [c1 EXCEPT !.err = v.k]
             ELSE IF c2.err # "none" THEN c2
             ELSE [c2 EXCEPT !.links[l].pool = {}]
        ELSE c1

\* for input in inputs: input.add_hook(hook)
RECURSIVE add_hooks(_, _, _, _)
add_hooks(fs, inputs, i, l) ==
    IF i > Len(inputs) THEN fs
    ELSE add_hooks([fs EXCEPT ![inputs[i]].hooks = Append(@, l)], inputs, i + 1, l)

\* MemoryFloat.connect(*inputs, output=output, func=func)
connect(c, inputs, output, func) ==
    LET l == Len(c.links) + 1
        link == [inputs |-> inputs, output |-> output, func |-> func, pool |-> {}]
    IN  [c EXCEPT !.floats = add_hooks(@, inputs, 1, l),
                  !.links = Append(@, link)]

\* a transform whose history repeats func of the current values
transform_current(c, inputs, func) ==
    LET f(i) == c.floats[inputs[i]]
        value == add(f(1).value, f(2).value)
        result == [value |-> value,
                   history |-> [time \in 1..Len(f(1).history) |-> value],
                   hooks |-> <<>>]
    IN  [c EXCEPT !.floats = Append(@, result)]

\* MemoryFloat.transform(*floats, func=func) with the two-argument func of
\* test_transform; the result becomes a new entry of c.floats.  An input with
\* a shorter history than the first raises IndexError.
transform(c, inputs, func) ==
    LET f(i) == c.floats[inputs[i]]
        value == add(f(1).value, f(2).value)
        result == [value |-> value,
                   history |-> [time \in 1..Len(f(1).history) |->
                                    add(f(1).history[time], f(2).history[time])],
                   hooks |-> <<>>]
    IN  IF Len(f(2).history) < Len(f(1).history)
        THEN [c EXCEPT !.err = "IndexError"]
        ELSE [c EXCEPT !.floats = Append(@, result)]

\* Container.subscribe, with MemoryFloat.connect
subscribe(c, varname, inputs, func) ==
    LET output == Len(c.floats) + 1
        l == Len(c.links) + 1
        link == [inputs |-> inputs, output |-> output, func |-> func, pool |-> {}]
    IN  [c EXCEPT !.floats = add_hooks(Append(@, MemoryFloat(nan)), inputs, 1, l),
                  !.attrs[varname] = output,
                  !.links = Append(@, link)]

(***************************************************************************)
(* Container.                                                              *)
(***************************************************************************)
\* a save that leaves out the last of mem_floats
RECURSIVE Container_save_short(_, _)
Container_save_short(c, i) ==
    IF c.err # "none" \/ i > Len(mem_floats) - 1 THEN c
    ELSE Container_save_short(save(c, mem_floats[i]), i + 1)

\* the hooks of mem_floats[i..], without the appends
RECURSIVE hooks_in_order(_, _)
hooks_in_order(c, i) ==
    IF c.err # "none" \/ i > Len(mem_floats) THEN c
    ELSE hooks_in_order(run_hooks(c, mem_floats[i], 1), i + 1)

\* a save that appends to every history of mem_floats before any hook runs
Container_save_append_first(c, i) ==
    hooks_in_order(
        [c EXCEPT !.floats =
            [j \in DOMAIN c.floats |->
                IF j \in Range(mem_floats)
                THEN [c.floats[j] EXCEPT !.history = Append(@, Cur(c, j))]
                ELSE c.floats[j]]], i)

\* Container.save
RECURSIVE Container_save(_, _)
Container_save(c, i) ==
    IF c.err # "none" \/ i > Len(mem_floats) THEN c
    ELSE Container_save(save(c, mem_floats[i]), i + 1)

\* deque.pop(), which takes the newest sample instead of the oldest
pop_right(d) == [out |-> d[Len(d)], rest |-> SubSeq(d, 1, Len(d) - 1)]

\* data[0], which reads the oldest sample and leaves it in the deque
peek_left(d) == [out |-> Head(d), rest |-> d]

\* deque.popleft(): the sample removed and the deque that remains
popleft(d) == [out |-> Head(d), rest |-> Tail(d)]

\* a _pop after which the reciprocals start again at 0 when a zero leaves
pop_zero_forgotten(c) ==
    IF c.data = <<>> THEN [c EXCEPT !.err = "IndexError"]
    ELSE
    LET out == popleft(c.data).out
        prev_M == Cur(c, id_M)
        n == Sub(Cur(c, id_n), Num(1))
        sum == Sub(Cur(c, id_sum), out)
        cur_diff == Sub(out, Cur(c, id_M))
        M == Sub(Cur(c, id_M), Div(cur_diff, n))
        S == Sub(Cur(c, id_S), Mul(cur_diff, Sub(out, prev_M)))
        rs == IF Eq(out, Num(0)) THEN Num(0)
              ELSE Sub(Cur(c, id_reciprocal_sum), Div(Num(1), out))
        c1 == [c EXCEPT !.data = popleft(c.data).rest,
                        !.floats[id_n].value = n,
                        !.floats[id_sum].value = sum]
    IN  IF Eq(n, Num(0))
        THEN [c1 EXCEPT !.floats[id_S].value = nan,
                        !.floats[id_M].value = nan,
                        !.floats[id_reciprocal_sum].value = nan]
        ELSE [c1 EXCEPT !.floats[id_S].value = S,
                        !.floats[id_M].value = M,
                        !.floats[id_reciprocal_sum].value = rs]

\* a _pop that takes the squared difference out of S twice
pop_twice_the_square(c) ==
    IF c.data = <<>> THEN [c EXCEPT !.err = "IndexError"]
    ELSE
    LET out == popleft(c.data).out
        prev_M == Cur(c, id_M)
        n == Sub(Cur(c, id_n), Num(1))
        sum == Sub(Cur(c, id_sum), out)
        cur_diff == Sub(out, Cur(c, id_M))
        M == Sub(Cur(c, id_M), Div(cur_diff, n))
        S == Sub(Cur(c, id_S), Mul(Num(2), Mul(cur_diff, Sub(out, prev_M))))
        rs == IF Eq(out, Num(0)) THEN nan
              ELSE Sub(Cur(c, id_reciprocal_sum), Div(Num(1), out))
        c1 == [c EXCEPT !.data = popleft(c.data).rest,
                        !.floats[id_n].value = n,
                        !.floats[id_sum].value = sum]
    IN  IF Eq(n, Num(0))
        THEN [c1 EXCEPT !.floats[id_S].value = nan,
                        !.floats[id_M].value = nan,
                        !.floats[id_reciprocal_sum].value = nan]
        ELSE [c1 EXCEPT !.floats[id_S].value = S,
                        !.floats[id_M].value = M,
                        !.floats[id_reciprocal_sum].value = rs]

\* Container._pop
pop(c) ==
    IF c.data = <<>> THEN [c EXCEPT !.err = "IndexError"]
    ELSE
    LET out == popleft(c.data).out
        prev_M == Cur(c, id_M)
        n == Sub(Cur(c, id_n), Num(1))
        sum == Sub(Cur(c, id_sum), out)
        cur_diff == Sub(out, Cur(c, id_M))
        M == Sub(Cur(c, id_M), Div(cur_diff, n))
        S == Sub(Cur(c, id_S), Mul(cur_diff, Sub(out, prev_M)))
        rs == IF Eq(out, Num(0)) THEN nan
              ELSE Sub(Cur(c, id_reciprocal_sum), Div(Num(1), out))
        c1 == [c EXCEPT !.data = popleft(c.data).rest,
                        !.floats[id_n].value = n,
                        !.floats[id_sum].value = sum]
    IN  IF Eq(n, Num(0))
        THEN [c1 EXCEPT !.floats[id_S].value = nan,
                        !.floats[id_M].value = nan,
                        !.floats[id_reciprocal_sum].value = nan]
        ELSE [c1 EXCEPT !.floats[id_S].value = S,
                        !.floats[id_M].value = M,
                        !.floats[id_reciprocal_sum].value = rs]

\* "self.n > self.window_size": evicts one sample too late
evicts_late(c) == Less(c.window_size, Cur(c, id_n))

\* "if self.n >= self.window_size"
evicts(c) == Leq(c.window_size, Cur(c, id_n))

\* one round of the loop of Container.push
push_datapoint(c, datapoint) ==
    LET c1 == assign(c, id_value, datapoint)
        c2 == IF evicts(c1) THEN pop(c1) ELSE c1
        reciprocal == IF Eq(datapoint, Num(0)) THEN nan ELSE Div(Num(1), datapoint)
        n == Add(Cur(c2, id_n), Num(1))
        sum == Add(Cur(c2, id_sum), datapoint)
        prev_M == Cur(c2, id_M)
        cur_diff == Sub(datapoint, prev_M)
        M == Add(prev_M, Div(cur_diff, n))
        S == Add(Cur(c2, id_S), Mul(cur_diff, Sub(datapoint, M)))
        rs == Add(Cur(c2, id_reciprocal_sum), reciprocal)
        c3 == [c2 EXCEPT !.floats[id_n].value = n,
                         !.floats[id_sum].value = sum]
        c4 == IF Eq(n, Num(1))
              THEN [c3 EXCEPT !.floats[id_S].value = Num(0),
                              !.floats[id_M].value = datapoint,
                              !.floats[id_reciprocal_sum].value = reciprocal]
              ELSE [c3 EXCEPT !.floats[id_S].value = S,
                              !.floats[id_M].value = M,
                              !.floats[id_reciprocal_sum].value = rs]
    IN  IF c2.err # "none" THEN c2 ELSE Container_save(c4, 1)

\* for datapoint in datapoints
RECURSIVE push_loop(_, _, _)
push_loop(c, datapoints, i) ==
    IF c.err # "none" \/ i > Len(datapoints) THEN c
    ELSE push_loop(push_datapoint(c, Num(datapoints[i])), datapoints, i + 1)

\* Container.push, or the lambda that replaces it when window_size <= 0:
\* the lambda takes exactly one argument
push(c, datapoints) ==
    IF Leq(c.window_size, Num(0))
    THEN IF Len(datapoints) = 1 THEN c ELSE [c EXCEPT !.err = "TypeError"]
    ELSE LET nums == [i \in 1..Len(datapoints) |-> Num(datapoints[i])]
         IN  push_loop([c EXCEPT !.data = @ \o nums], datapoints, 1)

(***************************************************************************)
(* The state of one Container.                                             *)
(*   window_size, data   the attributes of that name                       *)
(*   floats              every MemoryFloat, the six primaries first        *)
(*   links               the closures made by MemoryFloat.connect          *)
(*   attrs               the attributes set by subscribe (0: not set)      *)
(*   err                 the exception the last call raised, or "none"     *)
(*   pushed              every sample handed to push so far, in order      *)
(*   subscribed_at       per link, the number of commits of the primaries  *)
(*                       (samples pushed to a positive window and direct   *)
(*                       saves) before it was subscribed                   *)
(*   last                the last call and its arguments                   *)
(*   trace               the hook calls of the last call, in order, each   *)
(*                       with what the hook found (Seen)                   *)
(*   saved               the number of direct calls of Container.save      *)
(***************************************************************************)
VARIABLES window_size, data, floats, links, attrs, err, pushed, subscribed_at, last,
          trace, saved

vars ==
    <<window_size, data, floats, links, attrs, err, pushed, subscribed_at, last, trace,
      saved>>

\* the window sizes Containers are created with: negative, zero, fractional,
\* integer and the default float("inf")
WindowSizes == {Q(0 - 1, 1), Num(0), Q(1, 2), Num(1), Num(2), Q(5, 2), Num(3), inf}

SubWindows == {Num(1), Num(2), inf}

\* the subscribe calls: the seven subscribe_* methods, the custom
\* subscription of the tests, and one that names an input twice
SubChoices ==
    { [varname |-> "var", inputs |-> <<id_S, id_n>>, func |-> "var"],
      [varname |-> "std", inputs |-> <<id_S, id_n>>, func |-> "std"],
      [varname |-> "pop_var", inputs |-> <<id_S, id_n>>, func |-> "pop_var"],
      [varname |-> "pop_std", inputs |-> <<id_S, id_n>>, func |-> "pop_std"],
      [varname |-> "zscore", inputs |-> <<id_S, id_n, id_value, id_M>>, func |-> "zscore"],
      [varname |-> "mean", inputs |-> <<id_M>>, func |-> "mean"],
      [varname |-> "harmonic_mean", inputs |-> <<id_reciprocal_sum, id_n>>,
       func |-> "harmonic_mean"],
      [varname |-> "mean_plus_1", inputs |-> <<id_M>>, func |-> "mean_plus_1"],
      [varname |-> "twice", inputs |-> <<id_n, id_n>>, func |-> "var"] }

VarNames == {ch.varname : ch \in SubChoices}

Batches(S) == UNION {[1..k -> S] : k \in 1..MaxBatch}

\* the Container as the operators take it
Self ==
    [window_size |-> window_size, data |-> data, floats |-> floats,
     links |-> links, attrs |-> attrs, err |-> "none", trace |-> <<>>]

Becomes(c) ==
    /\ window_size' = c.window_size
    /\ data' = c.data
    /\ floats' = c.floats
    /\ links' = c.links
    /\ attrs' = c.attrs
    /\ err' = c.err
    /\ trace' = c.trace

\* the commits of the primaries so far: one per sample pushed, unless
\* window_size <= 0 has made push a no-op, and one per direct save
Committed == (IF Less(Num(0), window_size) THEN Len(pushed) ELSE 0) + saved

\* Container.__init__ up to the push of the initial data
NewContainer(ws) ==
    /\ window_size = ws
    /\ data = <<>>
    /\ floats = <<MemoryFloat(nan), MemoryFloat(Num(0)), MemoryFloat(nan),
                  MemoryFloat(nan), MemoryFloat(Num(0)), MemoryFloat(nan)>>
    /\ links = <<>>
    /\ attrs = [v \in VarNames |-> 0]
    /\ err = "none"
    /\ pushed = <<>>
    /\ subscribed_at = <<>>
    /\ last = [op |-> "new", args |-> <<>>]
    /\ trace = <<>>
    /\ saved = 0

Init == \E ws \in WindowSizes : NewContainer(ws)

InitSub == \E ws \in SubWindows : NewContainer(ws)

\* Container(data, window_size): "if data: self.push(*data)"
CallInit(datapoints) ==
    /\ last.op = "new"
    /\ Becomes(push(Self, datapoints))
    /\ pushed' = pushed \o datapoints
    /\ last' = [op |-> "init", args |-> datapoints]
    /\ UNCHANGED <<subscribed_at, saved>>

\* container.push(*datapoints)
CallPush(datapoints) ==
    /\ Becomes(push(Self, datapoints))
    /\ pushed' = pushed \o datapoints
    /\ last' = [op |-> "push", args |-> datapoints]
    /\ UNCHANGED <<subscribed_at, saved>>

\* container.subscribe(varname, *inputs, func=func)
CallSubscribe(ch) ==
    /\ Becomes(subscribe(Self, ch.varname, ch.inputs, ch.func))
    /\ subscribed_at' = Append(subscribed_at, Committed)
    /\ last' = [op |-> "subscribe", args |-> <<>>]
    /\ UNCHANGED <<pushed, saved>>

\* container.save(), called by the user: every primary commits its current
\* value once more and the hooks run
CallSave ==
    /\ Becomes(Container_save(Self, 1))
    /\ saved' = saved + 1
    /\ last' = [op |-> "save", args |-> <<>>]
    /\ UNCHANGED <<pushed, subscribed_at>>

\* at most MaxSaved direct saves; a direct save commits an entry to every
\* history as a pushed sample does, and is counted with the samples
ContainerSave ==
    saved < MaxSaved /\ Len(pushed) + saved < MaxPushed /\ CallSave

Construct ==
    \E d \in Batches(Samples) : Len(d) <= MaxPushed /\ CallInit(d)

Push ==
    \E d \in Batches(Samples) : Len(pushed) + saved + Len(d) <= MaxPushed /\ CallPush(d)

Next == Construct \/ Push \/ ContainerSave

Spec == Init /\ [][Next]_vars

SubConstruct ==
    \E d \in Batches(SubSamples) : Len(d) <= MaxSubPushed /\ CallInit(d)

SubPush ==
    \E d \in Batches(SubSamples) : Len(pushed) + saved + Len(d) <= MaxSubPushed /\ CallPush(d)

Subscribe ==
    \E ch \in SubChoices : Len(links) < MaxSubs /\ CallSubscribe(ch)

SubContainerSave ==
    saved < MaxSaved /\ Len(pushed) + saved < MaxSubPushed /\ CallSave

NextSub == SubConstruct \/ SubPush \/ Subscribe \/ SubContainerSave

SpecSub == InitSub /\ [][NextSub]_vars

\* subscriptions, pushes and direct saves on Containers of every window
\* size, the non-positive and the fractional ones included
SpecAnyWindow == Init /\ [][NextSub]_vars

(***************************************************************************)
(* Helpers of the properties.                                              *)
(***************************************************************************)
Min(a, b) == IF a < b THEN a ELSE b

Nums(s) == [i \in 1..Len(s) |-> Num(s[i])]

\* the last k elements of s
LastOf(s, k) == SubSeq(s, Len(s) - k + 1, Len(s))

IsInteger(a) == IsQ(a) /\ a.q = 1

Primaries == Range(mem_floats)

\* a push call, or the push of the constructor's data, has returned
Returned == last.op \in {"push", "init"} /\ err = "none"

\* the last call was a push, a construction with data or a direct save, and
\* it returned
Settled == last.op \in {"push", "init", "save"} /\ err = "none"

\* every history entry so far was committed by a push: Container.save has not
\* been called directly
PushesOnly == saved = 0

\* some sample has been evicted
Evicted == Len(data) >= 1 /\ Len(pushed) > Len(data)

\* C1: when a push call returns, n.current is the number of retained samples,
\* for every window_size and single or multi-sample pushes.
C1_NEqualsLen == Returned => Eq(Cur(Self, id_n), Num(Len(data)))

\* a push of several samples that evicted has returned
C1_Witness == Returned /\ Len(last.args) >= 2 /\ Evicted

\* C2: for an integer window_size W >= 1 the retained sequence after each push
\* is the last min(W, total pushed) samples in push order; with an infinite
\* window it is everything pushed.
C2_RetainsNewest ==
    Returned =>
        /\ (IsInteger(window_size) /\ window_size.p >= 1) =>
               data = Nums(LastOf(pushed, Min(window_size.p, Len(pushed))))
        /\ window_size = inf => data = Nums(pushed)

\* a window of 2 that has seen 4 samples, the older two different from the
\* newer two
C2_Witness ==
    /\ Returned
    /\ window_size = Num(2)
    /\ Len(pushed) = 4
    /\ pushed[1] # pushed[3]
    /\ pushed[2] # pushed[4]
    /\ data = Nums(<<pushed[3], pushed[4]>>)

\* C3: for every finite positive window_size, fractional ones included, the
\* number of retained samples and n.current are at most window_size after
\* every push.
C3_AtMostWindow ==
    (Returned /\ IsQ(window_size) /\ Less(Num(0), window_size)) =>
        /\ Leq(Num(Len(data)), window_size)
        /\ Leq(Cur(Self, id_n), window_size)

\* C4: with window_size <= 0 every push of one or more samples, and the
\* construction with any initial data, raises nothing and changes nothing:
\* no sample is retained, no primary changes, no history entry is appended.
C4_SilentNoOp ==
    (last.op \in {"push", "init"} /\ Leq(window_size, Num(0))) =>
        /\ err = "none"
        /\ data = <<>>
        /\ floats = <<MemoryFloat(nan), MemoryFloat(Num(0)), MemoryFloat(nan),
                      MemoryFloat(nan), MemoryFloat(Num(0)), MemoryFloat(nan)>>

\* C5: for window_size > 0 every pushed sample appends exactly one entry to the
\* history of each of the six primaries, evicting or not: after k samples each
\* history has length k, value.history is the pushed samples in order, and
\* n.history[t] is min(t, W) (t counted from 1) for an integer W.  A direct
\* call of Container.save is no pushed sample: it adds one more entry to each
\* history, so the lengths are counted with saved, and the entries are read by
\* sample number while every entry comes from a push.
C5_OneEntryPerSample ==
    (Settled /\ Less(Num(0), window_size)) =>
        /\ \A id \in Primaries : Len(floats[id].history) = Len(pushed) + saved
        /\ PushesOnly =>
               /\ floats[id_value].history = Nums(pushed)
               /\ IsInteger(window_size) =>
                      \A t \in 1..Len(pushed) :
                          floats[id_n].history[t] = Num(Min(t, window_size.p))

\* an integer window that has evicted more than once
C5_Witness ==
    /\ Returned
    /\ PushesOnly
    /\ IsInteger(window_size)
    /\ window_size.p >= 1
    /\ Len(pushed) >= window_size.p + 2

\* the links that were subscribed before the first sample (and before any
\* direct save) and name no input twice
EarlyLinks ==
    {l \in 1..Len(links) :
        subscribed_at[l] = 0 /\ Cardinality(Range(links[l].inputs)) = Len(links[l].inputs)}

\* C6 as stated: after at least one push, len(history) == n.current for every
\* primary and for every derived value whose inputs are all primaries (read
\* for Containers that are only pushed to).
C6_HistoryIsN ==
    (Returned /\ PushesOnly /\ Len(pushed) >= 1) =>
        /\ \A id \in Primaries : Eq(Num(Len(floats[id].history)), Cur(Self, id_n))
        /\ \A l \in EarlyLinks :
               Eq(Num(Len(floats[links[l].output].history)), Cur(Self, id_n))

\* the smallest integer that is not below the positive rational w
Ceil(w) == (w.p + w.q - 1) \div w.q

\* the entries a link commits per commit of its inputs: connect adds the hook
\* once per occurrence of an input, so a link that names one primary k times
\* fires k times (C8)
EntriesPerCommit(l) ==
    IF Cardinality(Range(links[l].inputs)) = 1 THEN Len(links[l].inputs) ELSE 1

\* C6 amended: after at least one push (the last call having returned), for
\* every window_size: with window_size > 0 the history of every primary has
\* one entry per sample pushed so far (plus one for every direct call of
\* Container.save), and n.current equals the number of samples pushed only
\* until the first eviction (for a finite window_size W it is the smaller of
\* the number of samples pushed and W rounded up); with window_size <= 0 push
\* commits nothing, n.current stays 0 and the histories hold only the entries
\* of direct saves.  A derived value over primaries has entries only for the
\* commits made after its subscription (C7): one per commit over distinct
\* primaries, k per commit when it names one primary k times (C8).
C6_HistoryIsPushed ==
    (Settled /\ Len(pushed) >= 1) =>
        /\ \A id \in Primaries : Len(floats[id].history) = Committed
        /\ \A l \in 1..Len(links) :
               Len(floats[links[l].output].history) =
                   EntriesPerCommit(l) * (Committed - subscribed_at[l])
        /\ Cur(Self, id_n) =
               IF ~Less(Num(0), window_size) THEN Num(0)
               ELSE IF window_size = inf THEN Num(Len(pushed))
               ELSE Num(Min(Len(pushed), Ceil(window_size)))

\* a Container with a derived value subscribed after the first sample has
\* evicted
C6_Witness ==
    /\ Returned
    /\ PushesOnly
    /\ Evicted
    /\ Len(links) = 1
    /\ subscribed_at[1] = 1
    /\ Len(floats[links[1].output].history) = Len(pushed) - 1

\* the links that name no input twice
DistinctLinks ==
    {l \in 1..Len(links) : Cardinality(Range(links[l].inputs)) = Len(links[l].inputs)}

\* C7: after every push all primaries and all subscribed derived values have
\* equal history length, whenever the subscription was made (stated here for
\* the derived values over distinct inputs, in Containers that are only
\* pushed to).
C7_EqualHistoryLengths ==
    (Returned /\ PushesOnly) =>
        /\ \A id \in Primaries :
               Len(floats[id].history) = Len(floats[id_value].history)
        /\ \A l \in DistinctLinks :
               Len(floats[links[l].output].history) = Len(floats[id_value].history)

\* C8: each sample pushed after a subscription over primaries (the same
\* primary may be named more than once) makes the derived value commit exactly
\* once: its history has one entry per sample pushed since the subscription
\* (read for Containers that are only pushed to).
C8_OncePerSample ==
    (Returned /\ PushesOnly) =>
        \A l \in 1..Len(links) :
            Len(floats[links[l].output].history) = Len(pushed) - subscribed_at[l]

\* the sum of a sequence of numbers
RECURSIVE SumOf(_)
SumOf(s) == IF s = <<>> THEN Num(0) ELSE Add(Head(s), SumOf(Tail(s)))

MeanOf(s) == Div(SumOf(s), Num(Len(s)))

\* the sum of the squared deviations of the samples s from their mean
SquaredDeviations(s) ==
    SumOf([i \in 1..Len(s) |-> Mul(Sub(s[i], MeanOf(s)), Sub(s[i], MeanOf(s)))])

\* C9: with window_size > 0 and n.current >= 1, S.current is the sum of the
\* squared deviations of the retained samples from their mean, also after
\* evictions.
C9_SIsSquaredDeviations ==
    (Returned /\ Less(Num(0), window_size) /\ Leq(Num(1), Cur(Self, id_n))) =>
        Cur(Self, id_S) = SquaredDeviations(data)

\* C10: whenever after a push the window holds at least two samples that are
\* all equal, S.current is 0, so var, std, pop_var and pop_std are 0 and
\* zscore is NaN.
C10_EqualSamplesNoSpread ==
    LET S == Cur(Self, id_S)
        n == Cur(Self, id_n)
    IN  (Returned /\ Len(data) >= 2 /\ \A i \in 1..Len(data) : data[i] = data[1]) =>
            /\ S = Num(0)
            /\ var(S, n) = Num(0)
            /\ std(S, n) = Num(0)
            /\ pop_var(S, n) = Num(0)
            /\ pop_std(S, n) = Num(0)
            /\ IsNaN(zscore(S, n, Cur(Self, id_value), Cur(Self, id_M)))

\* the samples counted in n when sample t was committed (lines 264-286 for
\* that sample): the newest n.history[t] of the first t samples pushed.
\* Container.data itself holds more while a call is under way, because line 261
\* extends it with the whole batch before the first sample is processed; the
\* two agree where a call ends at sample t.  Entry t of a history belongs to
\* sample t while every entry comes from a push.
WindowAt(t) == LastOf(Nums(SubSeq(pushed, 1, t)), floats[id_n].history[t].p)

\* C11: with window_size > 0, also after evictions, sum.current is the sum of
\* the retained samples and M.current is sum.current / n.current, and each
\* history entry of sum and M is that quantity for the window as it stood
\* after the corresponding sample: the samples counted in n at that commit
\* (the histories are read by sample number in Containers that are only
\* pushed to).
C11_SumAndMean ==
    (Returned /\ Less(Num(0), window_size)) =>
        /\ Cur(Self, id_sum) = SumOf(data)
        /\ Cur(Self, id_M) = Div(Cur(Self, id_sum), Cur(Self, id_n))
        /\ Cur(Self, id_M) = MeanOf(data)
        /\ PushesOnly =>
               \A t \in 1..Len(pushed) :
                   /\ floats[id_sum].history[t] = SumOf(WindowAt(t))
                   /\ floats[id_M].history[t] = MeanOf(WindowAt(t))

\* a window of two different samples, left after an eviction, whose mean is
\* not an integer
C11_Witness ==
    /\ Returned
    /\ PushesOnly
    /\ Evicted
    /\ Len(data) = 2
    /\ Cur(Self, id_M).q = 2

\* Container.__init__ without data
FreshContainer(ws) ==
    [window_size |-> ws, data |-> <<>>,
     floats |-> <<MemoryFloat(nan), MemoryFloat(Num(0)), MemoryFloat(nan),
                  MemoryFloat(nan), MemoryFloat(Num(0)), MemoryFloat(nan)>>,
     links |-> <<>>, attrs |-> [v \in VarNames |-> 0], err |-> "none", trace |-> <<>>]

\* container.push(s[1]); container.push(s[2]); ...
RECURSIVE OneAtATime(_, _)
OneAtATime(c, s) ==
    IF s = <<>> THEN c ELSE OneAtATime(push(c, <<Head(s)>>), Tail(s))

\* Container.__eq__ between two Containers
Container_eq(c1, c2) == c1.window_size = c2.window_size /\ c1.data = c2.data

\* C13: for a positive window_size, the samples pushed in multi-sample calls
\* leave the Container in the state that pushing them one at a time leaves it
\* in: same retained sequence, same current value and history for every
\* primary, and the two Containers compare equal.  (The histories are
\* compared in Containers that are only pushed to: a direct Container.save
\* adds entries that the pushes of the other Container do not.)
C13_BatchIsOneAtATime ==
    (Returned /\ Less(Num(0), window_size)) =>
        LET one == OneAtATime(FreshContainer(window_size), pushed)
        IN  /\ data = one.data
            /\ \A id \in Primaries : Cur(Self, id) = Cur(one, id)
            /\ PushesOnly => \A id \in Primaries : floats[id] = one.floats[id]
            /\ Container_eq(Self, one)

\* all the samples were pushed in one call, which evicted
C13_Witness ==
    /\ Returned
    /\ PushesOnly
    /\ Len(pushed) >= 2
    /\ last.args = pushed
    /\ Evicted

\* 1 / sample as push computes it
ReciprocalOf(x) == IF x = 0 THEN nan ELSE Q(1, x)

\* C19: with window_size in (0, 1] every eviction empties the window: right
\* after it n = 0, sum = 0 and S, M, reciprocal_sum are NaN; the sample
\* admitted next is treated as a first sample: n = 1, S = 0, M = sum = the
\* sample and reciprocal_sum = 1/sample (NaN for 0).
C19_EmptiedWindowRestarts ==
    (Less(Num(0), window_size) /\ Leq(window_size, Num(1))) =>
        /\ \A d \in Batches(Samples) :
               LET c1 == assign([Self EXCEPT !.data = @ \o Nums(d)], id_value, Num(d[1]))
                   c2 == pop(c1)
               IN  evicts(c1) =>
                       /\ Cur(c2, id_n) = Num(0)
                       /\ Cur(c2, id_sum) = Num(0)
                       /\ IsNaN(Cur(c2, id_S))
                       /\ IsNaN(Cur(c2, id_M))
                       /\ IsNaN(Cur(c2, id_reciprocal_sum))
        /\ (Returned /\ PushesOnly) =>
               \A t \in 1..Len(pushed) :
                   /\ floats[id_n].history[t] = Num(1)
                   /\ floats[id_S].history[t] = Num(0)
                   /\ floats[id_M].history[t] = Num(pushed[t])
                   /\ floats[id_sum].history[t] = Num(pushed[t])
                   /\ floats[id_reciprocal_sum].history[t] = ReciprocalOf(pushed[t])

\* a window of 1 or 1/2 that has evicted three times, a zero among the samples
C19_Witness ==
    /\ Returned
    /\ PushesOnly
    /\ Less(Num(0), window_size)
    /\ Leq(window_size, Num(1))
    /\ Len(pushed) = 4
    /\ \E t \in 1..3 : pushed[t] = 0 /\ pushed[t + 1] # 0

\* the Container with every current value replaced by its k-th history entry
AtTime(k) ==
    [Self EXCEPT !.floats =
        [i \in DOMAIN floats |->
            IF k <= Len(floats[i].history)
            THEN [floats[i] EXCEPT !.value = floats[i].history[k]]
            ELSE floats[i]]]

\* the float that func gives for the inputs of link l in container state c
FuncOf(c, l) == Float(c.floats, Apply(c, links[l].func, links[l].inputs))

\* C17: for a derived value subscribed before the first push over distinct
\* primaries, after every push its k-th history entry is func of the k-th
\* history entries of its inputs, for every k, and its current value is func
\* of the inputs' current values.  An entry committed by a direct call of
\* Container.save follows its inputs' entries in the same way.
C17_DerivedFollowsInputs ==
    Settled =>
        \A l \in EarlyLinks :
            /\ Len(floats[links[l].output].history) = Len(pushed) + saved
            /\ \A k \in 1..(Len(pushed) + saved) :
                   floats[links[l].output].history[k] = FuncOf(AtTime(k), l)
            /\ Cur(Self, links[l].output) = FuncOf(Self, l)

\* a derived value of several inputs, subscribed at the start, whose last two
\* entries differ and are numbers, after an eviction
C17_Witness ==
    /\ Returned
    /\ Evicted
    /\ \E l \in EarlyLinks :
           /\ Len(links[l].inputs) >= 2
           /\ Len(pushed) >= 3
           /\ IsQ(floats[links[l].output].history[2])
           /\ IsQ(floats[links[l].output].history[3])
           /\ floats[links[l].output].history[2] # floats[links[l].output].history[3]

(***************************************************************************)
(* C14 as stated: whenever a hook attached to a primary runs, every        *)
(* primary's history already contains the entry for the current sample,    *)
(* which is the newest entry of the primary whose hook runs.               *)
(***************************************************************************)
C14_AllAppendedBeforeHooks ==
    \A k \in 1..Len(trace) :
        trace[k].input \in Primaries =>
            \A i \in Primaries : trace[k].lens[i] = trace[k].lens[trace[k].input]

(***************************************************************************)
(* C14 amended: when a hook attached to a primary runs, the histories of   *)
(* that primary and of the primaries before it in mem_floats contain the   *)
(* entry for the current sample, and the histories of the primaries after  *)
(* it do not contain it yet.                                               *)
(***************************************************************************)
C14_AppendedUpToTheSaver ==
    Returned =>
        \A k \in 1..Len(trace) :
            LET e == trace[k]
                t == e.lens[e.input]
            IN  e.input \in Primaries =>
                    \A i \in Primaries :
                        e.lens[i] = IF i <= e.input THEN t ELSE t - 1

C14_Witness ==
    /\ Returned
    /\ Len(pushed) > 1
    /\ \E k \in 1..Len(trace) : trace[k].input = id_value /\ trace[k].lens[id_value] > 1

(***************************************************************************)
(* C15: at every sample's commit step, when the observers run, n.current   *)
(* equals len(data): data holds no sample that has not been counted yet.   *)
(***************************************************************************)
C15_DataIsCountedAtCommit ==
    \A k \in 1..Len(trace) : trace[k].n = Num(trace[k].datalen)

(***************************************************************************)
(* Containers with subscribe_harmonic_mean and samples of both signs, so   *)
(* that the reciprocals of the retained samples can cancel.                *)
(***************************************************************************)
SignedSamples == {0 - 1, 0, 1, 2}

harmonic_mean ==
    [varname |-> "harmonic_mean", inputs |-> <<id_reciprocal_sum, id_n>>,
     func |-> "harmonic_mean"]

SubscribeHarmonic == links = <<>> /\ CallSubscribe(harmonic_mean)

PushSigned ==
    \E d \in Batches(SignedSamples) :
        Len(pushed) + saved + Len(d) <= MaxSubPushed /\ CallPush(d)

NextHarmonic == SubscribeHarmonic \/ PushSigned \/ SubContainerSave

SpecHarmonic == InitSub /\ [][NextHarmonic]_vars

(***************************************************************************)
(* C12: with harmonic_mean subscribed, no push of finite samples raises,   *)
(* and after a push that leaves reciprocal_sum.current 0 or NaN            *)
(* harmonic_mean is NaN.                                                   *)
(***************************************************************************)
C12_UndefinedIsNaN ==
    (last.op = "push" /\ links # <<>>) =>
        /\ err = "none"
        /\ (IsNaN(Cur(Self, id_reciprocal_sum)) \/ Eq(Cur(Self, id_reciprocal_sum), Num(0)))
               => IsNaN(Cur(Self, links[1].output))

(***************************************************************************)
(* Chained subscriptions: the first link is one of the subscriptions over  *)
(* distinct primaries, and every further link has the output of the link   *)
(* before it among its inputs, alone or with a primary that commits before *)
(* or after that output.  All links are registered before the first push.  *)
(* The funcs are those without a square root, so that every value in the   *)
(* chain is a fraction; varname is the attribute the caller stores the     *)
(* output under.                                                           *)
(***************************************************************************)
FirstChoices ==
    {ch \in SubChoices :
        ch.varname \in {"var", "pop_var", "mean", "harmonic_mean", "mean_plus_1"}}

ChainChoices(prev) ==
    { [varname |-> "mean_plus_1", inputs |-> <<prev>>, func |-> "mean_plus_1"],
      [varname |-> "pop_var", inputs |-> <<prev, id_n>>, func |-> "pop_var"],
      [varname |-> "var", inputs |-> <<prev, id_reciprocal_sum>>, func |-> "var"],
      [varname |-> "pop_std", inputs |-> <<id_value, prev>>, func |-> "pop_var"] }

SubscribeFirst ==
    \E ch \in FirstChoices : links = <<>> /\ pushed = <<>> /\ CallSubscribe(ch)

SubscribeChained ==
    \E ch \in ChainChoices(Len(floats)) :
        /\ links # <<>>
        /\ Len(links) < MaxChain
        /\ pushed = <<>>
        /\ CallSubscribe(ch)

PushChain ==
    \E d \in Batches(SubSamples) :
        Len(pushed) + saved + Len(d) <= MaxSubPushed /\ CallPush(d)

NextChain == SubscribeFirst \/ SubscribeChained \/ PushChain \/ SubContainerSave

SpecChain == InitSub /\ [][NextChain]_vars

\* the calls of trace in which link l fired
Firings(l) == {k \in 1..Len(trace) : trace[k].link = l /\ trace[k].fires}

(***************************************************************************)
(* C16: in a chain of subscriptions with distinct inputs, a push of k      *)
(* samples makes every link fire exactly k times; when a link fires for a  *)
(* sample every one of its inputs has committed its value for that sample, *)
(* and the entry it commits is func of those values; and when push returns *)
(* every derived value has one entry per sample, is func of the current    *)
(* values of its inputs, and no link waits for an input.  The chain is     *)
(* subscribed on a Container that has committed nothing yet; a direct call *)
(* of Container.save afterwards adds one entry to every history, which the *)
(* entry numbers count.                                                    *)
(***************************************************************************)
C16_ChainCommitsOncePerSample ==
    (Returned /\ last.op = "push" /\ \A l \in 1..Len(links) : subscribed_at[l] = 0) =>
        \A l \in 1..Len(links) :
            LET out == links[l].output
                before == Len(pushed) + saved - Len(last.args)
            IN  /\ Cardinality(Firings(l)) = Len(last.args)
                /\ \A k \in Firings(l) :
                       LET t == before + Cardinality({j \in Firings(l) : j <= k})
                       IN  /\ \A i \in Range(links[l].inputs) : trace[k].lens[i] = t
                           /\ trace[k].lens[out] = t - 1
                           /\ floats[out].history[t] = FuncOf(AtTime(t), l)
                /\ Len(floats[out].history) = Len(pushed) + saved
                /\ Cur(Self, out) = FuncOf(Self, l)
                /\ links[l].pool = {}

\* a push of two samples through a chain whose second link mixes the first
\* link's output with a primary and yields a number
C16_Witness ==
    /\ Returned
    /\ \A l \in 1..Len(links) : subscribed_at[l] = 0
    /\ last.op = "push"
    /\ Len(last.args) = 2
    /\ Len(links) = 2
    /\ Len(links[2].inputs) = 2
    /\ IsQ(Cur(Self, links[2].output))
    /\ Cur(Self, links[2].output) # Cur(Self, links[1].output)

(***************************************************************************)
(* MemoryFloats on their own, as in test_connect and test_transform: two   *)
(* or three inputs and an output, connected by the first call; the inputs  *)
(* are then assigned and saved in any order.  floats holds the inputs, the *)
(* output and then the result of transform; trace is not reset by the      *)
(* calls and holds every hook call since connect.                          *)
(***************************************************************************)
InputCounts == {2, 3}

AssignedValues == {0, 1}

NewFloats(N) ==
    /\ floats = [i \in 1..N |-> MemoryFloat(Num(0))] \o <<MemoryFloat(nan)>>
    /\ links = <<>>
    /\ err = "none"
    /\ trace = <<>>
    /\ last = [op |-> "new", args |-> <<>>]
    /\ window_size = inf
    /\ data = <<>>
    /\ attrs = [v \in VarNames |-> 0]
    /\ pushed = <<>>
    /\ subscribed_at = <<>>
    /\ saved = 0

SelfFloats == [Self EXCEPT !.trace = trace]

BecomesFloats(c) ==
    /\ floats' = c.floats
    /\ links' = c.links
    /\ err' = c.err
    /\ trace' = c.trace
    /\ UNCHANGED <<window_size, data, attrs, pushed, subscribed_at, saved>>

\* the inputs and the output of the link, once connected
Inputs == Range(links[1].inputs)

Output == links[1].output

\* MemoryFloat.connect(i1, .., iN, output=o, func=...)
Connect ==
    /\ links = <<>>
    /\ LET N == Len(floats) - 1
       IN  BecomesFloats(connect(SelfFloats, [i \in 1..N |-> i], N + 1,
                                 IF N = 2 THEN "add" ELSE "sum_func"))
    /\ last' = [op |-> "connect", args |-> <<>>]

\* input.assign(v)
Assign ==
    \E i \in 1..Len(floats), v \in AssignedValues :
        /\ links # <<>>
        /\ i \in Inputs
        /\ BecomesFloats(assign(SelfFloats, i, Num(v)))
        /\ last' = [op |-> "assign", args |-> <<i, v>>]

\* input.save()
Save ==
    \E i \in 1..Len(floats) :
        /\ links # <<>>
        /\ i \in Inputs
        /\ Len(trace) < MaxSaves
        /\ BecomesFloats(save(SelfFloats, i))
        /\ last' = [op |-> "save", args |-> <<i>>]

\* MemoryFloat.transform(a, b, func=lambda x, y: x + y)
Transform ==
    /\ links # <<>>
    /\ Len(floats) = Output
    /\ \E a \in Inputs \cup {Output}, b \in Inputs \cup {Output} :
           /\ BecomesFloats(transform(SelfFloats, <<a, b>>, "add"))
           /\ last' = [op |-> "transform", args |-> <<a, b>>]

\* input.assign(k) where the input has committed k - 1 times: its next value,
\* as the k-th values of test_connect
AssignNext ==
    \E i \in 1..Len(floats) :
        LET k == Len(floats[i].history) + 1
        IN  /\ links # <<>>
            /\ i \in Inputs
            /\ floats[i].value # Num(k)
            /\ BecomesFloats(assign(SelfFloats, i, Num(k)))
            /\ last' = [op |-> "assign", args |-> <<i, k>>]

\* input.save() of an input that has been assigned its next value, over
\* several rounds of commits
SaveInRounds ==
    \E i \in 1..Len(floats) :
        /\ links # <<>>
        /\ i \in Inputs
        /\ Len(trace) < MaxCommits
        /\ floats[i].value = Num(Len(floats[i].history) + 1)
        /\ BecomesFloats(save(SelfFloats, i))
        /\ last' = [op |-> "save", args |-> <<i>>]

NextConnect == Connect \/ AssignNext \/ SaveInRounds

SpecConnect == (\E N \in InputCounts : NewFloats(N)) /\ [][NextConnect]_vars

NextTransform == Connect \/ Assign \/ Save \/ Transform

SpecTransform == NewFloats(2) /\ [][NextTransform]_vars

\* the last call before the k-th in which the link fired, or 0
PrevFire(k) ==
    IF \E j \in 1..(k - 1) : trace[j].fires
    THEN CHOOSE j \in 1..(k - 1) :
             trace[j].fires /\ \A m \in (j + 1)..(k - 1) : ~trace[m].fires
    ELSE 0

\* the commits since connect come in whole rounds of one commit per input
InRounds ==
    LET N == Len(links[1].inputs)
    IN  /\ Len(trace) % N = 0
        /\ \A r \in 1..(Len(trace) \div N) :
               {trace[k].input : k \in ((r - 1) * N + 1)..(r * N)} = Inputs

\* func of the current values of the inputs
FuncNow ==
    IF Len(links[1].inputs) = 2
    THEN add(floats[1].value, floats[2].value)
    ELSE sum_func(floats[1].value, floats[2].value, floats[3].value)

\* every input other than i has committed since the link last fired
OthersCommitted(i) ==
    \A j \in Inputs \ {i} :
        \E k \in (PrevFire(Len(trace) + 1) + 1)..Len(trace) : trace[k].input = j

(***************************************************************************)
(* C18: for connect over N distinct inputs, in any interleaving of input   *)
(* commits the output commits at the commit of an input exactly when every *)
(* other input has committed since the link last fired (a repeated commit  *)
(* of one input counts once); it then gets one entry, func of the inputs'  *)
(* current values, and it changes at no other time.  When the commits come *)
(* in rounds of one per input, the output has one entry per round.         *)
(***************************************************************************)
C18_FiresWhenAllCommitted ==
    [][links # <<>> =>
          /\ last'.op = "save" =>
                 IF OthersCommitted(last'.args[1])
                 THEN floats'[Output] =
                          [floats[Output] EXCEPT !.value = FuncNow,
                                                 !.history = Append(@, FuncNow)]
                 ELSE floats'[Output] = floats[Output]
          /\ last'.op # "save" => floats'[Output] = floats[Output]
          /\ InRounds' =>
                 Len(floats'[Output].history) = Len(trace') \div Len(links[1].inputs)
      ]_vars

\* three inputs after two rounds of commits, each round in another order
\* than the inputs were connected in, and in different orders: the output has
\* two entries, 1 + 1 + 1 and 2 + 2 + 2
C18_Witness ==
    /\ links # <<>>
    /\ Len(links[1].inputs) = 3
    /\ Len(trace) = 6
    /\ InRounds
    /\ trace[1].input # 1
    /\ trace[4].input # trace[1].input
    /\ floats[Output].history = <<Num(3), Num(6)>>

(***************************************************************************)
(* C20: transform over two inputs of equal history length L adds a         *)
(* MemoryFloat without hooks whose value is func of the inputs' values and *)
(* whose history has L entries, entry t being func of the inputs' entries  *)
(* at t; the call changes no value, history or hook list of any other      *)
(* MemoryFloat and no link, and no later assign or save changes the        *)
(* result.                                                                 *)
(***************************************************************************)
C20_TransformIsASnapshot ==
    [][/\ (last'.op = "transform" /\ err' = "none"
              /\ Len(floats[last'.args[1]].history) = Len(floats[last'.args[2]].history)) =>
              LET a == floats[last'.args[1]]
                  b == floats[last'.args[2]]
                  result == floats'[Len(floats')]
              IN  /\ Len(floats') = Len(floats) + 1
                  /\ \A i \in DOMAIN floats : floats'[i] = floats[i]
                  /\ links' = links
                  /\ result.value = add(a.value, b.value)
                  /\ Len(result.history) = Len(a.history)
                  /\ \A t \in 1..Len(a.history) :
                         result.history[t] = add(a.history[t], b.history[t])
                  /\ result.hooks = <<>>
       /\ (links # <<>> /\ Len(floats) > Output /\ last'.op \in {"assign", "save"}) =>
              floats'[Len(floats)] = floats[Len(floats)]
      ]_vars

\* the result of a transform of two inputs with two entries each, after a
\* later save of an input
C20_Witness ==
    /\ links # <<>>
    /\ Len(floats) > Output
    /\ last.op = "save"
    /\ Len(floats[Len(floats)].history) = 2
    /\ Len(floats[1].history) = 3
    /\ IsQ(floats[Len(floats)].history[2])

\* the window never empties and holds at least two samples when full
AtLeastTwo == Leq(Num(2), window_size)

(***************************************************************************)
(* C21: for window_size >= 2, once reciprocal_sum is NaN after a zero      *)
(* sample it is NaN after every later sample, also when the zero has been  *)
(* evicted and only nonzero samples are retained: after the t-th sample    *)
(* reciprocal_sum is NaN exactly when a zero is among the first t samples. *)
(* No eviction empties the window: when the next sample evicts, n is at    *)
(* least 1 after the eviction.  (The entries are read by sample number in  *)
(* Containers that are only pushed to.)                                    *)
(***************************************************************************)
C21_ZeroPoisonsForGood ==
    AtLeastTwo =>
        /\ evicts(Self) => Leq(Num(1), Cur(pop(Self), id_n))
        /\ Returned =>
               /\ Len(floats[id_reciprocal_sum].history) = Len(pushed) + saved
               /\ PushesOnly =>
                      \A t \in 1..Len(pushed) :
                          IsNaN(floats[id_reciprocal_sum].history[t])
                              <=> \E u \in 1..t : pushed[u] = 0
               /\ IsNaN(Cur(Self, id_reciprocal_sum)) <=> \E u \in 1..Len(pushed) : pushed[u] = 0

\* the zero has been evicted, the window is full of nonzero samples and
\* reciprocal_sum is still NaN
C21_Witness ==
    /\ Returned
    /\ PushesOnly
    /\ window_size = Num(2)
    /\ Len(pushed) = 4
    /\ pushed[1] = 0
    /\ \A i \in 1..Len(data) : ~Eq(data[i], Num(0))
    /\ Len(data) = 2
    /\ IsNaN(Cur(Self, id_reciprocal_sum))

(***************************************************************************)
(* C22: with window_size > 0, when a push has returned and n >= 1, S is at *)
(* least the sum of the squared deviations of the retained samples from    *)
(* their mean, so it is not negative, and std and pop_std do not raise.    *)
(***************************************************************************)
C22_SNeverBelowDeviations ==
    (Returned /\ Less(Num(0), window_size) /\ Leq(Num(1), Cur(Self, id_n))) =>
        /\ Leq(SquaredDeviations(data), Cur(Self, id_S))
        /\ Leq(Num(0), Cur(Self, id_S))
        /\ ~IsRaise(std(Cur(Self, id_S), Cur(Self, id_n)))
        /\ ~IsRaise(pop_std(Cur(Self, id_S), Cur(Self, id_n)))

\* after an eviction from a window of 3, S is above the squared deviations
\* of the three retained samples
C22_Witness ==
    /\ Returned
    /\ window_size = Num(3)
    /\ Evicted
    /\ Len(data) = 3
    /\ Less(SquaredDeviations(data), Cur(Self, id_S))

====
